---- MODULE Spec2Model ----
(***************************************************************************)
(* Model of ai-cli (src/main.go): one invocation of the command-line       *)
(* client.  The state is the invocation's inputs (arguments, whether stdin *)
(* is a pipe), its environment (the ollama executable and its listing, the *)
(* OPENAI_API_KEY variable, the configuration file) and the position of    *)
(* run() with the values it has computed so far.  Text is modelled as      *)
(* sequences of one-character strings so that trimming, splitting and      *)
(* number scanning are computed as the Go library computes them.           *)
(* The file system is taken to be reliable: MkdirAll, WriteFile and Stat   *)
(* do not fail for reasons other than the file being absent.               *)
(***************************************************************************)
EXTENDS Integers, Sequences, FiniteSets, TLC

\* ------------------------------------------------------------------ bounds
\* Lines of the runner's listing output after its first line.
MaxLines == 2
\* Characters of a line typed (or piped) at the selection menu.
MaxInputLen == 2

\* ------------------------------------------------------------- text helpers
\* Sequences over S of length 0..n.
SeqsUpTo(S, n) == UNION {[1..k -> S] : k \in 0..n}

\* unicode.IsSpace, for the characters the model uses.
IsSpace(c) == c \in {" ", "\n", "\t", "\r"}

IsDigit(c) == c \in {"0", "1", "2", "3", "4", "5", "6", "7", "8", "9"}

DigitValue(c) == CASE c = "0" -> 0 [] c = "1" -> 1 [] c = "2" -> 2 [] c = "3" -> 3
                   [] c = "4" -> 4 [] c = "5" -> 5 [] c = "6" -> 6 [] c = "7" -> 7
                   [] c = "8" -> 8 [] c = "9" -> 9

RECURSIVE TrimLeft(_)
TrimLeft(s) == IF s # <<>> /\ IsSpace(Head(s)) THEN TrimLeft(Tail(s)) ELSE s

RECURSIVE TrimRight(_)
TrimRight(s) == IF s # <<>> /\ IsSpace(s[Len(s)])
                THEN TrimRight(SubSeq(s, 1, Len(s) - 1)) ELSE s

\* strings.TrimSpace
TrimSpace(s) == TrimRight(TrimLeft(s))

\* strings.Split(s, "\n"): always at least one element.
RECURSIVE SplitLines(_)
SplitLines(s) ==
  IF \A i \in 1..Len(s) : s[i] # "\n" THEN <<s>>
  ELSE LET k == CHOOSE i \in 1..Len(s) :
                   s[i] = "\n" /\ \A j \in 1..(i - 1) : s[j] # "\n"
       IN <<SubSeq(s, 1, k - 1)>> \o SplitLines(SubSeq(s, k + 1, Len(s)))

\* strings.Join(parts, sep)
RECURSIVE Join(_, _)
Join(parts, sep) ==
  IF parts = <<>> THEN <<>>
  ELSE IF Len(parts) = 1 THEN parts[1]
  ELSE parts[1] \o sep \o Join(Tail(parts), sep)

\* The first whitespace-delimited token of a string that does not start
\* with whitespace.
RECURSIVE TakeToken(_)
TakeToken(s) == IF s = <<>> \/ IsSpace(Head(s)) THEN <<>>
                ELSE <<Head(s)>> \o TakeToken(Tail(s))

\* strings.Fields
RECURSIVE Fields(_)
Fields(s) ==
  LET t == TrimLeft(s)
  IN IF t = <<>> THEN <<>>
     ELSE LET tok == TakeToken(t)
          IN <<tok>> \o Fields(SubSeq(t, Len(tok) + 1, Len(t)))

\* The longest prefix of s made of decimal digits.
RECURSIVE TakeDigits(_)
TakeDigits(s) == IF s = <<>> \/ ~IsDigit(Head(s)) THEN <<>>
                 ELSE <<Head(s)>> \o TakeDigits(Tail(s))

\* strconv.ParseInt(digits, 10, 64) of an unsigned digit string.
RECURSIVE DecimalValue(_)
DecimalValue(ds) == IF ds = <<>> THEN 0
                    ELSE 10 * DecimalValue(SubSeq(ds, 1, Len(ds) - 1))
                         + DigitValue(ds[Len(ds)])

\* fmt.Sscanf(input, "%d", &choice) on a variable holding 0: leading space is
\* skipped, an optional sign is accepted, then the longest run of decimal
\* digits is converted; what follows the digits is left unread and is no
\* error.  When no digit is found the scan fails and the variable keeps 0.
SscanfD(input) ==
  LET s == TrimLeft(input)
      signed == s # <<>> /\ Head(s) \in {"+", "-"}
      rest == IF signed THEN Tail(s) ELSE s
      ds == TakeDigits(rest)
  IN IF ds = <<>> THEN 0
     ELSE IF signed /\ Head(s) = "-" THEN 0 - DecimalValue(ds)
     ELSE DecimalValue(ds)

\* ------------------------------------------------------------ program names
Ollama == "ollama"
OpenAI == "openai"

\* The words run() compares its first argument with.
SetModelWord == <<"s", "e", "t", "-", "m", "o", "d", "e", "l">>
HelpWords == {<<"-", "-", "h", "e", "l", "p">>, <<"-", "h">>, <<"h", "e", "l", "p">>}
OutputFlag == <<"-", "o">>

\* getOpenAIModels: the compiled-in catalog.
getOpenAIModels ==
  << <<"g", "p", "t", "-", "5", "-", "n", "a", "n", "o">>,
     <<"g", "p", "t", "-", "5", "-", "m", "i", "n", "i">>,
     <<"g", "p", "t", "-", "5", ".", "2">> >>

\* ------------------------------------------------------------ sample inputs
\* Lines the runner's `list` subcommand may print: an empty line, a line
\* holding one name, a line with leading space and two fields.
ListingLines == {<<>>, <<"a">>, <<" ", "b", " ", "a">>}

\* Its first line: nothing, or text that reads like a model name.
HeaderLines == {<<>>, <<"a">>}

\* Outputs of `ollama list`: a first line and 0..MaxLines more lines, joined
\* by newlines (a final empty line stands for a trailing newline).
Listings == {Join(<<h>> \o ls, <<"\n">>) :
               h \in HeaderLines, ls \in SeqsUpTo(ListingLines, MaxLines)}

\* The runner: not on the search path, on it but `list` fails, or on it and
\* `list` prints out.
Runners == {[state |-> "absent", out |-> <<>>], [state |-> "fails", out |-> <<>>]}
           \cup {[state |-> "ok", out |-> o] : o \in Listings}

\* Values of OPENAI_API_KEY as os.Getenv reports them ("" when unset).
ApiKeys == {"", "sk"}

\* The configuration file: absent, not JSON, or a Config record.
NoFile == [state |-> "absent", provider |-> "", model |-> <<>>]
Malformed == [state |-> "malformed", provider |-> "", model |-> <<>>]
ConfigOf(p, m) == [state |-> "ok", provider |-> p, model |-> m]
ConfigFiles == {NoFile, Malformed, ConfigOf(Ollama, <<"a">>),
                ConfigOf(OpenAI, getOpenAIModels[1])}

\* Argument vectors (os.Args[1:]).
ArgVectors == {<<>>, <<SetModelWord>>, <<<<"-", "-", "h", "e", "l", "p">>>>,
               <<<<"h", "i">>>>, <<<<" ">>>>, <<<<>>>>,
               <<OutputFlag, <<"f">>, <<"h", "i">>>>, <<<<"h", "i">>, OutputFlag>>}

\* What a line typed at the selection menu may hold.
ChoiceAlphabet == {"0", "1", "2", "a", "-"}
ChoiceTexts == SeqsUpTo(ChoiceAlphabet, MaxInputLen)

\* bufio.Reader.ReadString('\n'): the text up to and including the newline,
\* or, at end of input, io.EOF with nothing read.
ReadStringResults(texts) ==
  {[data |-> t \o <<"\n">>, eof |-> FALSE] : t \in texts}
  \cup {[data |-> <<>>, eof |-> TRUE]}

\* Lines typed at "Enter your prompt: ".
PromptTexts == {<<>>, <<" ">>, <<"h", "i">>}

\* io.ReadAll(os.Stdin) on a pipe: a read error, or the content.
ReadAllResults == {[ok |-> FALSE, data |-> <<>>]}
                  \cup {[ok |-> TRUE, data |-> d] :
                          d \in {<<>>, <<" ", "\n">>, <<"h", "i", "\n">>}}

\* `ollama run model prompt`: exit status and captured standard output.
RunResults == {[ok |-> FALSE, out |-> <<>>], [ok |-> TRUE, out |-> <<"x", "\n">>]}

\* The HTTP exchange of executeOpenAI: the request fails, reading the body
\* fails, the body is not JSON, or it decodes to an OpenAIResponse.
ChoiceLists == {<<>>, <<<<"x">>>>, <<<<"y">>, <<"x">>>>}
Messages == {<<>>, <<"b", "o", "o", "m">>}
HttpResults ==
  {[kind |-> k, hasError |-> FALSE, message |-> <<>>, choices |-> <<>>] :
      k \in {"sendFailed", "readFailed", "notJSON"}}
  \cup {[kind |-> "json", hasError |-> FALSE, message |-> <<>>, choices |-> cs] :
          cs \in ChoiceLists}
  \cup {[kind |-> "json", hasError |-> TRUE, message |-> m, choices |-> cs] :
          m \in Messages, cs \in ChoiceLists}

NoResponse == [kind |-> "none", hasError |-> FALSE, message |-> <<>>, choices |-> <<>>]

\* -------------------------------------------------------------------- state
VARIABLES
  args,        \* remaining arguments
  piped,       \* isPiped(): stdin is not a terminal
  runner,      \* the ollama executable and its listing
  apiKey,      \* OPENAI_API_KEY
  config,      \* the configuration file
  pc,          \* position of run()
  ret,         \* where run() continues after ensureConfigExists
  outputFile,  \* value of -o
  prompt,      \* the prompt handed to executePrompt
  output,      \* the backend's text
  err,         \* the error run() returns
  available,   \* the discovery map of the selection workflow
  options,     \* its flattened option list
  input,       \* the trimmed line read at the menu, while run() is at the
               \* selection command's return (it is a local of that command)
  choice,      \* the scanned choice
  flow,        \* which selection workflow ran
  events,      \* subprocesses spawned and HTTP requests sent, in order
  printed,     \* messages written to standard output
  writes,      \* number of saveConfig calls that wrote the file
  response,    \* what the HTTP exchange of executeOpenAI produced
  config0      \* the configuration file when the process started

vars == <<args, piped, runner, apiKey, config, pc, ret, outputFile, prompt, output,
          err, available, options, input, choice, flow, events, printed, writes,
          response, config0>>

envVars == <<piped, runner, apiKey, config0>>
selVars == <<available, options, choice, flow>>

NoError == [kind |-> "None", msg |-> <<>>]
ErrorOf(k, m) == [kind |-> k, msg |-> m]

Init ==
  /\ args \in ArgVectors
  /\ piped \in BOOLEAN
  /\ runner \in Runners
  /\ apiKey \in ApiKeys
  /\ config \in ConfigFiles
  /\ config0 = config
  /\ pc = "run"
  /\ ret = "none"
  /\ outputFile = <<>>
  /\ prompt = <<>>
  /\ output = <<>>
  /\ err = NoError
  /\ available = <<>>
  /\ options = <<>>
  /\ input = <<>>
  /\ choice = 0
  /\ flow = "none"
  /\ events = <<>>
  /\ printed = {}
  /\ writes = 0
  /\ response = NoResponse

\* ------------------------------------------------------- provider discovery
\* isOllamaInstalled: exec.LookPath("ollama") succeeds.
isOllamaInstalled(r) == r.state # "absent"

\* hasOpenAIToken
hasOpenAIToken(key) == key # ""

\* The loop of getInstalledModels over lines[i..]: line 0 and blank lines are
\* skipped, the first field of every other line is appended.
RECURSIVE ListedModels(_, _)
ListedModels(lines, i) ==
  IF i > Len(lines) THEN <<>>
  ELSE IF i = 1 \/ TrimSpace(lines[i]) = <<>> THEN ListedModels(lines, i + 1)
  ELSE LET fields == Fields(lines[i])
       IN (IF Len(fields) > 0 THEN <<fields[1]>> ELSE <<>>)
          \o ListedModels(lines, i + 1)

\* getInstalledModels: `ollama list` fails (also when the executable is
\* missing), or its output is parsed.
getInstalledModels(r) ==
  IF r.state # "ok" THEN [ok |-> FALSE, models |-> <<>>]
  ELSE [ok |-> TRUE, models |-> ListedModels(SplitLines(r.out), 1)]

\* getAllAvailableModels: the map from provider to models.
getAllAvailableModels(r, key) ==
  LET listed == getInstalledModels(r)
      withOllama == isOllamaInstalled(r) /\ listed.ok /\ Len(listed.models) > 0
      providers == (IF withOllama THEN {Ollama} ELSE {})
                   \cup (IF hasOpenAIToken(key) THEN {OpenAI} ELSE {})
  IN [p \in providers |-> IF p = Ollama THEN listed.models ELSE getOpenAIModels]

\* The ModelOption values of one provider's entry of the map.
OptionsOf(av, p) ==
  IF p \in DOMAIN av
  THEN [i \in 1..Len(av[p]) |-> [provider |-> p, model |-> av[p][i]]]
  ELSE <<>>

\* The flat option list with the catalog put before the runner's models.
initOptions_RemoteFirst(av) == OptionsOf(av, OpenAI) \o OptionsOf(av, Ollama)

\* The flat option list initCommand builds.
initOptions(av) == OptionsOf(av, Ollama) \o OptionsOf(av, OpenAI)

\* The flat option list setModelCommand builds.
setModelOptions(av) == OptionsOf(av, Ollama) \o OptionsOf(av, OpenAI)

\* isModelInstalled answering true for whatever the listing holds.
isModelInstalled_AlwaysInstalled(r, model) ==
  LET listed == getInstalledModels(r)
  IN [ok |-> listed.ok, installed |-> listed.ok]

\* isModelInstalled
isModelInstalled(r, model) ==
  LET listed == getInstalledModels(r)
  IN [ok |-> listed.ok,
      installed |-> listed.ok /\ \E i \in 1..Len(listed.models) : listed.models[i] = model]

\* ------------------------------------------------------------------ effects
ListEvent(by, res) ==
  [op |-> "list", by |-> by, ok |-> res.ok, models |-> res.models, model |-> <<>>]
RunEvent(model, ok) ==
  [op |-> "run", by |-> "execute", ok |-> ok, models |-> <<>>, model |-> model]
ExecuteEvent ==
  [op |-> "execute", by |-> "execute", ok |-> TRUE, models |-> <<>>, model |-> <<>>]
HttpEvent(model) ==
  [op |-> "http", by |-> "execute", ok |-> TRUE, models |-> <<>>, model |-> model]

\* The subprocess a discovery call spawns: `ollama list`, when the executable
\* is on the search path.
DiscoveryEvents(r) ==
  IF isOllamaInstalled(r) THEN <<ListEvent("discovery", getInstalledModels(r))>> ELSE <<>>

\* ------------------------------------------------------- selection workflow
\* initCommand's choice: blank selects 1, anything else is scanned.
initChoice(in) == IF in = <<>> THEN 1 ELSE SscanfD(in)

\* The acceptance test without the blank default.
initChoiceAccepted_BlankRejected(in, ch, n) == in # <<>> /\ ~(ch < 1 \/ ch > n)

\* initCommand's acceptance test: the range is checked for non-blank input.
initChoiceAccepted(in, ch, n) == in = <<>> \/ ~(ch < 1 \/ ch > n)

\* setModelCommand's choice and acceptance test.
setModelChoice(in) == SscanfD(in)
setModelChoiceAccepted(ch, n) == ~(ch < 1 \/ ch > n)

\* The Config built from the first option whatever the choice.
SelectedConfig_First(opts, ch) == ConfigOf(opts[1].provider, opts[1].model)

\* The Config built from options[choice-1].
SelectedConfig(opts, ch) == ConfigOf(opts[ch].provider, opts[ch].model)

\* return fmt.Errorf(...) from run(): main prints it and exits 1.
Fail(kind, msg) == pc' = "done" /\ err' = ErrorOf(kind, msg)

\* Strips the first "-o <file>" pair from the arguments.
ParseOutputFlag(av) ==
  LET at == {i \in 1..Len(av) : av[i] = OutputFlag}
  IN IF at = {} THEN [ok |-> TRUE, args |-> av, file |-> <<>>]
     ELSE LET i == CHOOSE k \in at : \A j \in at : k <= j
          IN IF i + 1 > Len(av) THEN [ok |-> FALSE, args |-> av, file |-> <<>>]
             ELSE [ok |-> TRUE, file |-> av[i + 1],
                   args |-> SubSeq(av, 1, i - 1) \o SubSeq(av, i + 2, Len(av))]

\* ------------------------------------------------------------------ actions
\* run(): the -o flag and the dispatch on the first argument.
run ==
  /\ pc = "run"
  /\ LET p == ParseOutputFlag(args)
     IN /\ args' = p.args
        /\ outputFile' = p.file
        /\ IF ~p.ok THEN Fail("FlagNeedsFile", <<>>) /\ ret' = ret
           ELSE IF Len(p.args) > 0
           THEN /\ err' = err
                /\ IF p.args[1] = SetModelWord
                   THEN pc' = "setModelCommand" /\ ret' = ret
                   ELSE IF p.args[1] \in HelpWords
                   THEN pc' = "printHelp" /\ ret' = ret
                   ELSE pc' = "ensureConfigExists" /\ ret' = "argsPrompt"
           ELSE IF piped
           THEN /\ ret' = ret
                /\ IF config.state = "absent"
                   THEN Fail("NotInitialized", <<>>)
                   ELSE pc' = "pipedPrompt" /\ err' = err
           ELSE pc' = "ensureConfigExists" /\ ret' = "interactivePrompt" /\ err' = err
  /\ UNCHANGED <<input, envVars, selVars, config, prompt, output, events, printed, writes,
                 response>>

\* ensureConfigExists: first-run setup when the file is absent.
ensureConfigExists ==
  /\ pc = "ensureConfigExists"
  /\ IF config.state = "absent"
     THEN printed' = printed \cup {"setup"} /\ pc' = "initCommand"
     ELSE printed' = printed /\ pc' = ret
  /\ UNCHANGED <<input, envVars, selVars, args, config, ret, outputFile, prompt, output, err,
                 events, writes, response>>

\* initCommand: discovery, menu, one line of input, saveConfig.
initCommand ==
  /\ pc = "initCommand"
  /\ LET av == getAllAvailableModels(runner, apiKey)
         opts == initOptions(av)
     IN /\ available' = av
        /\ flow' = "init"
        /\ events' = events \o DiscoveryEvents(runner)
        /\ IF DOMAIN av = {}
           THEN /\ printed' = printed \cup {"guidance"}
                /\ pc' = ret
                /\ UNCHANGED <<options, input, choice, config, writes, err>>
           ELSE \E r \in ReadStringResults(ChoiceTexts) :
                  LET in == TrimSpace(r.data)
                      ch == initChoice(in)
                  IN /\ options' = opts
                     /\ input' = in
                     /\ choice' = ch
                     /\ IF ~initChoiceAccepted(in, ch, Len(opts))
                        THEN /\ Fail("InvalidChoice", <<>>)
                             /\ printed' = printed \cup {"menu"}
                             /\ UNCHANGED <<config, writes>>
                        ELSE /\ config' = SelectedConfig(opts, ch)
                             /\ writes' = writes + 1
                             /\ printed' = printed \cup {"menu", "selected", "saved"}
                             /\ pc' = ret
                             /\ err' = err
  /\ UNCHANGED <<envVars, args, ret, outputFile, prompt, output, response>>

\* setModelCommand: the explicit selection workflow.
setModelCommand ==
  /\ pc = "setModelCommand"
  /\ LET av == getAllAvailableModels(runner, apiKey)
         opts == setModelOptions(av)
     IN /\ available' = av
        /\ flow' = "setModel"
        /\ events' = events \o DiscoveryEvents(runner)
        /\ IF DOMAIN av = {}
           THEN /\ Fail("NoModelsAvailable", <<>>)
                /\ UNCHANGED <<options, input, choice, config, writes, printed>>
           ELSE \E r \in ReadStringResults(ChoiceTexts) :
                  LET in == TrimSpace(r.data)
                      ch == setModelChoice(in)
                  IN /\ options' = opts
                     /\ input' = in
                     /\ choice' = ch
                     /\ IF ~setModelChoiceAccepted(ch, Len(opts))
                        THEN /\ Fail("InvalidChoice", <<>>)
                             /\ printed' = printed \cup {"menu"}
                             /\ UNCHANGED <<config, writes>>
                        ELSE /\ config' = SelectedConfig(opts, ch)
                             /\ writes' = writes + 1
                             /\ printed' = printed \cup {"menu", "changed"}
                             /\ pc' = "done"
                             /\ err' = err
  /\ UNCHANGED <<envVars, args, ret, outputFile, prompt, output, response>>

\* printHelp: usage text and the current model.
printHelp ==
  /\ pc = "printHelp"
  /\ printed' = printed \cup {"help"}
  /\ pc' = "done"
  /\ UNCHANGED <<input, envVars, selVars, args, config, ret, outputFile, prompt, output, err,
                 events, writes, response>>

\* run(), default case: the joined arguments, with piped input appended.
argsPrompt ==
  /\ pc = "argsPrompt"
  /\ LET joined == Join(args, <<" ">>)
     IN IF piped
        THEN \E r \in ReadAllResults :
               IF ~r.ok
               THEN prompt' = joined /\ Fail("ReadError", <<>>)
               ELSE /\ prompt' = joined \o <<"\n", "\n">> \o TrimSpace(r.data)
                    /\ pc' = "executePrompt"
                    /\ err' = err
        ELSE prompt' = joined /\ pc' = "executePrompt" /\ err' = err
  /\ input' = <<>>
  /\ UNCHANGED <<envVars, selVars, args, config, ret, outputFile, output, events,
                 printed, writes, response>>

\* run(), piped input without arguments (the file was found to exist).
pipedPrompt ==
  /\ pc = "pipedPrompt"
  /\ \E r \in ReadAllResults :
       IF ~r.ok
       THEN prompt' = prompt /\ Fail("ReadError", <<>>)
       ELSE prompt' = TrimSpace(r.data) /\ pc' = "executePrompt" /\ err' = err
  /\ UNCHANGED <<input, envVars, selVars, args, config, ret, outputFile, output, events,
                 printed, writes, response>>

\* run(), interactive mode after ensureConfigExists.
interactivePrompt ==
  /\ pc = "interactivePrompt"
  /\ printed' = printed \cup {"ask"}
  /\ \E r \in ReadStringResults(PromptTexts) :
       IF r.eof
       THEN prompt' = prompt /\ Fail("ReadError", <<>>)
       ELSE prompt' = TrimSpace(r.data) /\ pc' = "executePrompt" /\ err' = err
  /\ input' = <<>>
  /\ UNCHANGED <<envVars, selVars, args, config, ret, outputFile, output, events,
                 writes, response>>

\* executePrompt's test of the prompt.
IsEmptyPrompt(p) == p = <<>>

\* executePrompt: the prompt test, loadConfig, the switch on the provider.
executePrompt ==
  /\ pc = "executePrompt"
  /\ events' = events \o <<ExecuteEvent>>
  /\ IF IsEmptyPrompt(prompt) THEN Fail("EmptyPrompt", <<>>)
     ELSE IF config.state = "absent" THEN Fail("NotFound", <<>>)
     ELSE IF config.state = "malformed" THEN Fail("ParseError", <<>>)
     ELSE IF config.provider = Ollama THEN pc' = "executeOllama" /\ err' = err
     ELSE IF config.provider = OpenAI THEN pc' = "executeOpenAI" /\ err' = err
     ELSE Fail("UnknownProvider", <<>>)
  /\ UNCHANGED <<input, envVars, selVars, args, config, ret, outputFile, prompt, output,
                 printed, writes, response>>

\* executeOllama: the installed check, then `ollama run`.
executeOllama ==
  /\ pc = "executeOllama"
  /\ LET check == isModelInstalled(runner, config.model)
         listed == ListEvent("execute", getInstalledModels(runner))
     IN IF ~check.ok
        THEN /\ events' = events \o <<listed>>
             /\ Fail("RunnerUnavailable", <<>>)
             /\ output' = output
        ELSE IF ~check.installed
        THEN /\ events' = events \o <<listed>>
             /\ Fail("ModelNotInstalled", config.model)
             /\ output' = output
        ELSE \E r \in RunResults :
               /\ events' = events \o <<listed, RunEvent(config.model, r.ok)>>
               /\ IF ~r.ok
                  THEN Fail("ExecutionError", <<>>) /\ output' = output
                  ELSE output' = r.out /\ pc' = "writeOutput" /\ err' = err
  /\ UNCHANGED <<input, envVars, selVars, args, config, ret, outputFile, prompt, printed,
                 writes, response>>

\* The decoded response with the choices looked at before the error object.
OpenAIResult_ChoicesFirst(h) ==
  IF Len(h.choices) > 0 THEN [err |-> NoError, out |-> h.choices[1]]
  ELSE IF h.hasError THEN [err |-> ErrorOf("RemoteAPIError", h.message), out |-> <<>>]
  ELSE [err |-> ErrorOf("EmptyResponse", <<>>), out |-> <<>>]

\* What executeOpenAI returns for a decoded OpenAIResponse: the error object
\* first, then the number of choices, then the first choice's content.
OpenAIResult(h) ==
  IF h.hasError THEN [err |-> ErrorOf("RemoteAPIError", h.message), out |-> <<>>]
  ELSE IF Len(h.choices) = 0 THEN [err |-> ErrorOf("EmptyResponse", <<>>), out |-> <<>>]
  ELSE [err |-> NoError, out |-> h.choices[1]]

\* executeOpenAI: the credential, one POST, the decoded response.
executeOpenAI ==
  /\ pc = "executeOpenAI"
  /\ IF apiKey = ""
     THEN /\ Fail("MissingCredential", <<>>)
          /\ UNCHANGED <<events, response, output>>
     ELSE \E h \in HttpResults :
            /\ events' = events \o <<HttpEvent(config.model)>>
            /\ response' = h
            /\ IF h.kind = "sendFailed" THEN Fail("SendFailed", <<>>) /\ output' = output
               ELSE IF h.kind = "readFailed"
               THEN Fail("ReadFailed", <<>>) /\ output' = output
               ELSE IF h.kind = "notJSON"
               THEN Fail("ResponseParseError", <<>>) /\ output' = output
               ELSE LET res == OpenAIResult(h)
                    IN IF res.err # NoError
                       THEN Fail(res.err.kind, res.err.msg) /\ output' = output
                       ELSE output' = res.out /\ pc' = "writeOutput" /\ err' = err
  /\ UNCHANGED <<input, envVars, selVars, args, config, ret, outputFile, prompt, printed,
                 writes>>

\* writeOutput: standard output, or the -o file.
writeOutput ==
  /\ pc = "writeOutput"
  /\ printed' = printed \cup {IF outputFile = <<>> THEN "output" ELSE "outputFile"}
  /\ pc' = "done"
  /\ UNCHANGED <<input, envVars, selVars, args, config, ret, outputFile, prompt, output, err,
                 events, writes, response>>

\* main's exit status once run() has returned.
ExitCode == IF err.kind = "None" THEN 0 ELSE 1

Next ==
  \/ run
  \/ ensureConfigExists
  \/ initCommand
  \/ setModelCommand
  \/ printHelp
  \/ argsPrompt
  \/ pipedPrompt
  \/ interactivePrompt
  \/ executePrompt
  \/ executeOllama
  \/ executeOpenAI
  \/ writeOutput

Spec == Init /\ [][Next]_vars

\* ------------------------------------------------------------------- claims
\* Events of the given kinds that execute (not discovery) caused.
ExecuteEffects(ops) == {i \in DOMAIN events : events[i].by = "execute" /\ events[i].op \in ops}

\* executePrompt has been called.
ExecuteCalled == \E i \in DOMAIN events : events[i].op = "execute"

\* The selection workflow showed a menu and has read its line of input.
MenuAnswered == flow # "none" /\ Len(options) >= 1

\* run() is at the return of the first-run setup, the menu line still at hand.
InitReturned == flow = "init" /\ pc \in {"argsPrompt", "interactivePrompt"}

\* The invocation asks for a prompt: neither set-model nor help, -o well formed.
PromptInvocation ==
  /\ err.kind # "FlagNeedsFile"
  /\ args = <<>> \/ (args[1] # SetModelWord /\ args[1] \notin HelpWords)

\* in is entirely a decimal numeral whose value is in 1..n.
IsNumeralIn(in, n) ==
  /\ in # <<>>
  /\ \A i \in 1..Len(in) : IsDigit(in[i])
  /\ DecimalValue(in) \in 1..n

\* C1: with no configuration file, no credential and no runner, an invocation
\* on a terminal that triggers first-run setup prints the guidance, writes no
\* file and exits with code 0.
C1_FirstRunNoModelsExitsZero ==
  (pc = "done" /\ flow = "init" /\ ~piped /\ config0 = NoFile /\ apiKey = ""
     /\ runner.state = "absent")
  => ("guidance" \in printed /\ config = NoFile /\ ExitCode = 0)

\* C2: a prompt that is empty or only whitespace makes execute fail with
\* EmptyPrompt, and execute spawns no subprocess and sends no request.
C2_BlankPromptRejected ==
  (ExecuteCalled /\ TrimSpace(prompt) = <<>>)
  => (err.kind = "EmptyPrompt" /\ ExecuteEffects({"list", "run", "http"}) = {})

\* C3: at a menu of N >= 1 options, a line that is not entirely a decimal
\* numeral in 1..N (for first-run setup: and is not blank) fails with
\* InvalidChoice and leaves the configuration file as it was.
C3_BadChoiceRejected ==
  (MenuAnswered /\ (pc = "done" \/ InitReturned)
     /\ ~IsNumeralIn(input, Len(options))
     /\ (flow = "setModel" \/ input # <<>>))
  => (err.kind = "InvalidChoice" /\ config = config0)

\* C4: with piped stdin and no configuration file a prompt invocation fails
\* with "not initialized" and exit code 1; the selection workflow is never
\* started and no configuration file is written.
C4_PipedWithoutConfigFails ==
  (pc = "done" /\ piped /\ config0 = NoFile /\ PromptInvocation)
  => (err.kind = "NotInitialized" /\ ExitCode = 1 /\ flow = "none" /\ config = NoFile)

\* C5: `ollama run` is spawned only after a listing query of the same
\* execute call returned a list holding the configured model; a failed
\* listing query, and a listing without the model (ModelNotInstalled, naming
\* the model), end execute without the spawn.
C5_RunOnlyAfterListing ==
  /\ \A i \in ExecuteEffects({"run"}) :
       /\ events[i].model = config.model
       /\ \E j \in 1..(i - 1) :
            /\ events[j].op = "list" /\ events[j].by = "execute" /\ events[j].ok
            /\ \E k \in DOMAIN events[j].models : events[j].models[k] = config.model
            /\ \E e \in 1..(j - 1) : events[e].op = "execute"
  /\ \A j \in ExecuteEffects({"list"}) :
       /\ ~events[j].ok
          => (err.kind = "RunnerUnavailable" /\ ExecuteEffects({"run"}) = {})
       /\ (events[j].ok
           /\ \A k \in DOMAIN events[j].models : events[j].models[k] # config.model)
          => (err = ErrorOf("ModelNotInstalled", config.model)
              /\ ExecuteEffects({"run"}) = {})
  /\ (ExecuteCalled /\ config.state = "ok" /\ config.provider = Ollama
        /\ prompt # <<>> /\ pc \in {"writeOutput", "done"})
     => ExecuteEffects({"list"}) # {}

C5_Witness ==
  /\ pc = "done"
  /\ err = ErrorOf("ModelNotInstalled", config.model)
  /\ \E j \in ExecuteEffects({"list"}) : events[j].ok /\ Len(events[j].models) > 0

\* C6: when the runner is on the search path but its list subcommand fails,
\* the selection workflow's discovery surfaces that failure as the error of
\* the invocation.
C6_ListFailureSurfaces ==
  (flow # "none" /\ runner.state = "fails") => err.kind = "RunnerUnavailable"

\* The first tokens of the non-blank lines after the first line, in order.
ExpectedLocalModels ==
  IF runner.state # "ok" THEN <<>>
  ELSE LET lines == SplitLines(runner.out)
           rows == {i \in 2..Len(lines) : \E j \in 1..Len(lines[i]) : ~IsSpace(lines[i][j])}
           row(k) == CHOOSE i \in rows : Cardinality({j \in rows : j < i}) = k - 1
       IN [k \in 1..Cardinality(rows) |-> TakeToken(TrimLeft(lines[row(k)]))]

\* C7: the discovery map holds no provider with an empty model list, and the
\* option list is the runner's models in listing order (duplicates kept)
\* followed by the catalog in catalog order, whichever workflow built it: it
\* is a function of the environment alone.
C7_DiscoveryOrder ==
  flow # "none" =>
    /\ DOMAIN available \subseteq {Ollama, OpenAI}
    /\ \A p \in DOMAIN available : Len(available[p]) > 0
    /\ LET local == ExpectedLocalModels
           remote == IF apiKey # "" THEN getOpenAIModels ELSE <<>>
       IN options = [i \in 1..(Len(local) + Len(remote)) |->
                       IF i <= Len(local)
                       THEN [provider |-> Ollama, model |-> local[i]]
                       ELSE [provider |-> OpenAI, model |-> remote[i - Len(local)]]]

C7_Witness ==
  /\ flow = "setModel"
  /\ DOMAIN available = {Ollama, OpenAI}
  /\ Len(available[Ollama]) = 2
  /\ available[Ollama][1] = available[Ollama][2]
  /\ Len(options) = 5

\* executeOpenAI has returned.
OpenAIReturned ==
  /\ ExecuteCalled /\ prompt # <<>>
  /\ config.state = "ok" /\ config.provider = OpenAI
  /\ pc \in {"writeOutput", "done"}

\* C8: on the remote path, an unset key gives MissingCredential and no
\* request; otherwise, for a body that decodes, an error object gives
\* RemoteAPIError with its message even when choices are present, else zero
\* choices give EmptyResponse, else the first choice's content is returned.
C8_RemoteDecisionOrder ==
  OpenAIReturned =>
    /\ apiKey = "" => (err.kind = "MissingCredential" /\ ExecuteEffects({"http"}) = {})
    /\ (apiKey # "" /\ response.kind = "json") =>
         IF response.hasError THEN err = ErrorOf("RemoteAPIError", response.message)
         ELSE IF response.choices = <<>> THEN err.kind = "EmptyResponse"
         ELSE err = NoError /\ output = response.choices[1]

C8_Witness ==
  /\ OpenAIReturned
  /\ response.kind = "json" /\ response.hasError /\ Len(response.choices) > 0
  /\ err = ErrorOf("RemoteAPIError", <<"b", "o", "o", "m">>)

\* C9: in first-run setup with a non-empty option list a blank line and the
\* line "1" both succeed and persist option 1; in set-model a blank line
\* fails with InvalidChoice and writes nothing.
C9_BlankSelectsFirst ==
  /\ (MenuAnswered /\ InitReturned /\ input \in {<<>>, <<"1">>})
     => (err = NoError /\ writes = 1
         /\ config = ConfigOf(options[1].provider, options[1].model))
  /\ (MenuAnswered /\ flow = "init" /\ err.kind = "InvalidChoice")
     => input \notin {<<>>, <<"1">>}
  /\ (MenuAnswered /\ flow = "setModel" /\ input = <<>>)
     => (pc = "done" /\ err.kind = "InvalidChoice" /\ writes = 0 /\ config = config0)

C9_Witness ==
  /\ MenuAnswered /\ InitReturned /\ input = <<>>
  /\ Len(options) >= 2
  /\ config = ConfigOf(options[1].provider, options[1].model)

\* C10: the configuration file is written at most once, only by a selection
\* workflow whose choice was in 1..N, and then holds the provider and model
\* of the option at the chosen index, a model discovery reported for that
\* provider; every other path leaves the file as it was.
C10_ConfigWrittenOnlyBySelection ==
  /\ writes \in {0, 1}
  /\ writes = 0 => config = config0
  /\ writes = 1 =>
       /\ flow \in {"init", "setModel"}
       /\ err.kind \notin {"NoModelsAvailable", "InvalidChoice"}
       /\ choice \in 1..Len(options)
       /\ config = ConfigOf(options[choice].provider, options[choice].model)
       /\ config.provider \in DOMAIN available
       /\ \E i \in DOMAIN available[config.provider] :
            available[config.provider][i] = config.model
  /\ (flow = "none" \/ err.kind \in {"NoModelsAvailable", "InvalidChoice"}
        \/ "guidance" \in printed)
     => writes = 0

C10_Witness ==
  /\ pc = "done" /\ writes = 1 /\ choice = 2
  /\ ExecuteCalled /\ err.kind # "None"
  /\ config # config0

====
